---------------------------- MODULE Spec2Model ----------------------------
(***************************************************************************)
(* A model of the cdn-worker request handler (src/python/main.py), its     *)
(* signature matcher (ai_detection.py), its log forwarder (logging.py) and *)
(* the heuristic-detection module (extra/heuristic_detection.py).          *)
(*                                                                         *)
(* Strings the code inspects character by character (the User-Agent, the   *)
(* crawler tokens) are sequences of one-character strings.  A coroutine    *)
(* runs without interruption between two awaits, so every action is the    *)
(* code between one await and the next.                                    *)
(***************************************************************************)
EXTENDS Integers, Sequences, FiniteSets, TLC

VARIABLES
    cParts,     \* classifier probe: the fragments of the User-Agent header
    cPc,        \* classifier probe: "building" or "classified"
    cVerdict,   \* classifier probe: what is_ai_crawler returned
    cEntry,     \* classifier probe: the LogEntry handle_request builds
    handlers,   \* one record per invocation of handle_request
    arrivals,   \* per client address: requests received in the current minute
    tracker,    \* the attributes of the IPRequestTracker instance
    recordCalls, \* per client address: record calls made on the tracker
    store,      \* the Metrics objects and the dict objects that exist, by identity
    global_metrics, \* the MetricsCollector instance: its attributes
    snapshots,  \* the Metrics objects get_metrics returned, as callers hold them
    mhist       \* history of the calls made on the collector

metricsVars == <<store, global_metrics, snapshots, mhist>>

vars == <<cParts, cPc, cVerdict, cEntry, handlers, arrivals, tracker, recordCalls,
          store, global_metrics, snapshots, mhist>>

(***************************************************************************)
(* Bounds of the model.                                                    *)
(***************************************************************************)
MaxFrags == 2        \* fragments a probed User-Agent is concatenated from
NumReqs == 2         \* concurrent invocations of handle_request
MaxPerMinute == 1    \* the configured max_requests_per_minute (the dataclass
                     \* default is 60; the model configures a limit that
                     \* NumReqs requests can exceed)
MaxRecordCalls == 4  \* record calls made per client address
MaxCalls == 3        \* record_request calls made on top of the initial collector
WarmCalls == 998     \* record_request calls a collector in use has already taken
MaxSnapCalls == 2    \* record_request calls made while snapshots are held
MaxSnapshots == 2    \* snapshots callers hold at a time

Reqs == 1..NumReqs

(***************************************************************************)
(* ai_detection.py                                                         *)
(***************************************************************************)
AI_CRAWLERS ==
    << <<"G","P","T","B","o","t">>,
       <<"O","A","I","-","S","e","a","r","c","h","B","o","t">>,
       <<"C","h","a","t","G","P","T","-","U","s","e","r">>,
       <<"a","n","t","h","r","o","p","i","c","-","a","i">>,
       <<"C","l","a","u","d","e","B","o","t">>,
       <<"P","e","r","p","l","e","x","i","t","y","B","o","t">>,
       <<"G","o","o","g","l","e","-","E","x","t","e","n","d","e","d">>,
       <<"B","y","t","e","s","p","i","d","e","r">>,
       <<"A","m","a","z","o","n","b","o","t">>,
       <<"A","p","p","l","e","b","o","t","-","E","x","t","e","n","d","e","d">>,
       <<"C","C","B","o","t">> >>

\* Python's `crawler in user_agent` on two strings: crawler occurs at some
\* offset of user_agent, character for character (case-sensitive).
StrIn(crawler, user_agent) ==
    \E off \in 0..(Len(user_agent) - Len(crawler)) :
        \A k \in 1..Len(crawler) : user_agent[off + k] = crawler[k]

\* A plausible slip: the token is only looked for at the start of the string.
is_ai_crawler_prefix_only(user_agent) ==
    \E i \in 1..Len(AI_CRAWLERS) :
        /\ Len(AI_CRAWLERS[i]) <= Len(user_agent)
        /\ SubSeq(user_agent, 1, Len(AI_CRAWLERS[i])) = AI_CRAWLERS[i]

is_ai_crawler(user_agent) ==
    \E i \in 1..Len(AI_CRAWLERS) : StrIn(AI_CRAWLERS[i], user_agent)

(***************************************************************************)
(* Inputs: fragments of User-Agent strings, request fields.                *)
(***************************************************************************)
UaMozilla == <<"M","o","z","i","l","l","a","/","5",".","0"," ">>
UaVersion == <<"/","1",".","0">>
UaChrome == <<"C","h","r","o","m","e","/","1","1","9",".","0">>
UaLower == <<"g","p","t","b","o","t">>
UaCut == <<"G","P","T","B","o">>
UaT == <<"t">>

Fragments ==
    {AI_CRAWLERS[i] : i \in 1..Len(AI_CRAWLERS)}
        \cup {UaMozilla, UaVersion, UaChrome, UaLower, UaCut, UaT}

Methods == {"GET", "POST"}
Paths == {"/article", "/style.css"}
Clients == {"10.0.0.1", "10.0.0.2", "10.0.0.3"}

GPTBotUA == AI_CRAWLERS[1] \o UaVersion
BrowserUA == UaMozilla \o UaChrome

Request(method, path, user_agent, remote_addr) ==
    [method |-> method, path |-> path, user_agent |-> user_agent,
     remote_addr |-> remote_addr, referer |-> ""]

NoRequest == Request("", "", <<>>, "")

(***************************************************************************)
(* logging.py: LogEntry; main.py lines 31-40: the entry handle_request     *)
(* builds before its try block.  The timestamp is left out.                *)
(***************************************************************************)
LogEntry(method, path, user_agent, is_ai, status_code, remote_addr, referer) ==
    [method |-> method, path |-> path, user_agent |-> user_agent,
     is_ai_crawler |-> is_ai, status_code |-> status_code,
     remote_addr |-> remote_addr, referer |-> referer]

NewLogEntry(request) ==
    LogEntry(request.method, request.path, request.user_agent,
             is_ai_crawler(request.user_agent), 200,
             request.remote_addr, request.referer)

NoEntry == LogEntry("", "", <<>>, FALSE, 0, "", "")


(***************************************************************************)
(* The origin, as handle_request sees it through aiohttp: the request      *)
(* raises (a connection error, or the 30 s total timeout of line 73), or   *)
(* it yields a response whose headers are a multi-dict: an ordered list of *)
(* (name, value) pairs in which a name may repeat.                         *)
(***************************************************************************)
OriginReply(kind, status, headers, body) ==
    [kind |-> kind, status |-> status, headers |-> headers, body |-> body]

NoOrigin == OriginReply("none", 0, <<>>, "")
OriginErrors ==
    {OriginReply("error", 0, <<>>, ""), OriginReply("timeout", 0, <<>>, "")}
OriginResponses ==
    {OriginReply("response", 200, << <<"Content-Type", "text/html">> >>, "<html>page</html>"),
     OriginReply("response", 301, << <<"Location", "/moved">> >>, ""),
     OriginReply("response", 404, <<>>, "not found"),
     OriginReply("response", 503,
                 << <<"Set-Cookie", "a=1">>, <<"Set-Cookie", "b=2">> >>, "busy")}

\* Python's dict(multidict): one key per name; the mapping protocol reads
\* each key with __getitem__, which gives the first value of that name.
dict(headers) ==
    [name \in {headers[i][1] : i \in DOMAIN headers} |->
        headers[CHOOSE i \in DOMAIN headers :
                    /\ headers[i][1] = name
                    /\ \A j \in 1..(i - 1) : headers[j][1] # name][2]]

(***************************************************************************)
(* What handle_request gives its caller: a response dict, or an exception  *)
(* that leaves the coroutine.                                              *)
(***************************************************************************)
Response(statusCode, headers, body) ==
    [kind |-> "response", statusCode |-> statusCode, headers |-> headers,
     body |-> body]

NoResponse == [kind |-> "none", statusCode |-> 0, headers |-> <<>>, body |-> ""]
Escaped == [kind |-> "exception", statusCode |-> 0, headers |-> <<>>, body |-> ""]

SyntheticBody == "<html><head><title>AI-Ready Content</title></head>...</html>"
SyntheticResponse ==
    Response(200, [n \in {"Content-Type"} |-> "text/html; charset=utf-8"],
             SyntheticBody)
BadGateway ==
    Response(502, [n \in {"Content-Type"} |-> "text/plain"],
             "Failed to fetch from origin")
InternalError ==
    Response(500, [n \in {"Content-Type"} |-> "text/plain"],
             "Internal Server Error")

(***************************************************************************)
(* logging.py, forward_log: the POST to the log service ends in a 2xx      *)
(* ("ok"), a non-2xx ("rejected"), an exception ("error") or the 15 s      *)
(* timeout ("timeout").  The whole body is inside try/except Exception,    *)
(* so the awaiting caller sees it return in every case.                    *)
(***************************************************************************)
LogOutcomes == {"ok", "rejected", "error", "timeout"}

\* A plausible slip: the except clause is missing, the exception propagates.
forward_log_unguarded(outcome) ==
    IF outcome \in {"error", "timeout"} THEN "raises" ELSE "returns"

forward_log(outcome) ==
    CASE outcome = "ok" -> "returns"
      [] outcome = "rejected" -> "returns"
      [] OTHER -> "returns"

(***************************************************************************)
(* One invocation of handle_request.  pc is the await it is suspended at:  *)
(*   idle       not yet called                                             *)
(*   log_ai     line 58,  forward_log on the synthetic path                *)
(*   fetch      line 75,  session.request to the origin                    *)
(*   log_proxy  line 88,  forward_log with the origin's status             *)
(*   read       line 91,  origin_response.text()                           *)
(*   log502     line 104, forward_log in the proxy error handler           *)
(*   log500     line 116, forward_log in the outer error handler           *)
(*   done       returned, or left by an exception                          *)
(* faults, logs, fetches, sinkTrouble and over_limit are history: the      *)
(* steps that raised, the log events handed to forward_log, the origin     *)
(* requests started, whether a forward failed, and whether the client      *)
(* address had already sent max_requests_per_minute requests in the minute *)
(* when this one arrived.                                                  *)
(***************************************************************************)
IdleHandler ==
    [pc |-> "idle", request |-> NoRequest, log_entry |-> NoEntry,
     origin |-> NoOrigin, response |-> NoResponse, faults |-> {},
     logs |-> <<>>, fetches |-> 0, sinkTrouble |-> FALSE, over_limit |-> FALSE]

\* main.py lines 112-116 up to the await: the outer handler.
Except500(h) ==
    [h EXCEPT !.log_entry.status_code = 500, !.pc = "log500"]

\* A plausible slip: the proxy error handler answers without logging.
Except502_unlogged(h) ==
    [h EXCEPT !.log_entry.status_code = 502, !.response = BadGateway,
              !.pc = "done"]

\* main.py lines 100-104 up to the await: the proxy error handler.
Except502(h) ==
    [h EXCEPT !.log_entry.status_code = 502, !.pc = "log502"]

\* A plausible slip: the branch test of line 44 is dropped and a classified
\* crawler is proxied like any other request.
StartStep_always_proxy(h, request, fault, over) ==
    LET h0 == [h EXCEPT !.request = request, !.over_limit = over] IN
    IF fault \in {"extract", "classify"}
    THEN [h0 EXCEPT !.faults = {fault}, !.response = Escaped, !.pc = "done"]
    ELSE [h0 EXCEPT !.log_entry = NewLogEntry(request), !.pc = "fetch"]

\* main.py lines 19-58 / 19-80: from the call to the first await.
\* fault: "extract" (reading the request's fields raises, lines 23-28),
\* "classify" (is_ai_crawler raises at line 36), "print55" (the print of
\* line 55, which formats the User-Agent, raises), or "none".
StartStep(h, request, fault, over) ==
    LET h0 == [h EXCEPT !.request = request, !.over_limit = over] IN
    IF fault \in {"extract", "classify"}
    THEN [h0 EXCEPT !.faults = {fault}, !.response = Escaped, !.pc = "done"]
    ELSE LET h1 == [h0 EXCEPT !.log_entry = NewLogEntry(request)] IN
         IF is_ai_crawler(request.user_agent)
         THEN IF fault = "print55"
              THEN Except500([h1 EXCEPT !.faults = {fault}])
              ELSE [h1 EXCEPT !.log_entry.status_code = 200, !.pc = "log_ai"]
         ELSE [h1 EXCEPT !.pc = "fetch"]

\* main.py lines 75-88: the origin request completes.
FetchStep(h, reply) ==
    LET h1 == [h EXCEPT !.origin = reply, !.fetches = @ + 1] IN
    IF reply.kind # "response"
    THEN Except502(h1)
    ELSE [h1 EXCEPT !.log_entry.status_code = reply.status, !.pc = "log_proxy"]

\* main.py lines 91-98: the origin's body is read and the response relayed.
ReadStep(h, readOk) ==
    IF readOk
    THEN [h EXCEPT !.response = Response(h.origin.status, dict(h.origin.headers),
                                         h.origin.body),
                   !.pc = "done"]
    ELSE Except502([h EXCEPT !.faults = @ \cup {"read"}])

\* The await of forward_log completes (lines 58, 88, 104, 116) and the
\* coroutine runs on to its return or its next await.  Were forward_log to
\* raise, the exception would surface at the await: inside the outer try
\* (line 58), inside the proxy try (line 88), inside the proxy handler and
\* so inside the outer try (line 104), or inside the outer handler, where
\* nothing catches it (line 116).
LogStep(h, outcome) ==
    LET h1 == [h EXCEPT !.logs = Append(@, h.log_entry),
                        !.sinkTrouble = @ \/ outcome # "ok"]
        raised == [h1 EXCEPT !.faults = @ \cup {"forward_log"}]
    IN
    IF forward_log(outcome) = "returns"
    THEN CASE h.pc = "log_ai" -> [h1 EXCEPT !.response = SyntheticResponse, !.pc = "done"]
           [] h.pc = "log_proxy" -> [h1 EXCEPT !.pc = "read"]
           [] h.pc = "log502" -> [h1 EXCEPT !.response = BadGateway, !.pc = "done"]
           [] h.pc = "log500" -> [h1 EXCEPT !.response = InternalError, !.pc = "done"]
    ELSE CASE h.pc = "log_ai" -> Except500(raised)
           [] h.pc = "log_proxy" -> Except502(raised)
           [] h.pc = "log502" -> Except500(raised)
           [] h.pc = "log500" -> [raised EXCEPT !.response = Escaped, !.pc = "done"]

LogPcs == {"log_ai", "log_proxy", "log502", "log500"}

HandlerUAs == {GPTBotUA, BrowserUA}
HandlerClients == {"10.0.0.1"}
HandlerRequests ==
    {Request("GET", "/article", ua, addr) : ua \in HandlerUAs, addr \in HandlerClients}

(***************************************************************************)
(* extra/heuristic_detection.py                                            *)
(***************************************************************************)
\* IPRequestTracker.__init__ sets no attribute: the instance holds nothing.
IPRequestTracker == <<>>

create_ip_request_tracker == IPRequestTracker

\* The entries the tracker holds for a client address.
TrackerEntries(t, ip) == IF ip \in DOMAIN t THEN t[ip] ELSE <<>>

\* tracker.record(ip, ...): the class defines no such method, the call
\* raises AttributeError and the instance is as it was.
record_call(t, ip) == t

has_high_request_rate(ip, t, max_per_minute) == FALSE

is_ai_crawler_by_heuristics(ctx, config) == FALSE

HeuristicDetectionConfig == [max_requests_per_minute |-> MaxPerMinute]

(***************************************************************************)
(* extra/metrics.py                                                        *)
(*                                                                         *)
(* Python objects are mutable and shared by reference, so the Metrics      *)
(* objects and their dicts live in a store and are named by identity: an   *)
(* attribute that holds a dict holds the dict's index in store.dicts.      *)
(* Response times are whole units of time; a float quotient is kept as the *)
(* exact fraction, rounding is not modelled.                               *)
(***************************************************************************)
MAX_RESPONSE_TIMES == 1000

\* The module's own copy of the list, the same tokens in the same order.
METRICS_AI_CRAWLERS == AI_CRAWLERS

MetricsLogEntry(timestamp, method, path, user_agent, is_ai, status_code, remote_addr, referer) ==
    [timestamp |-> timestamp, method |-> method, path |-> path,
     user_agent |-> user_agent, is_ai_crawler |-> is_ai,
     status_code |-> status_code, remote_addr |-> remote_addr,
     referer |-> referer]

\* dict.get(key, 0), d[key] = value, and the counting idiom of lines 88-101.
Get(d, key) == IF key \in DOMAIN d THEN d[key] ELSE 0
Put(d, key, value) ==
    [k \in DOMAIN d \cup {key} |-> IF k = key THEN value ELSE d[k]]
Count(d, key) == Put(d, key, Get(d, key) + 1)
EmptyDict == <<>>

\* str.replace('Z', '+00:00') replaces every Z of the string.
RECURSIVE replace_Z(_)
replace_Z(s) ==
    IF s = <<>> THEN <<>>
    ELSE (IF Head(s) = "Z" THEN <<"+","0","0",":","0","0">> ELSE <<Head(s)>>)
         \o replace_Z(Tail(s))

Digits == {"0","1","2","3","4","5","6","7","8","9"}
DateTimeShape ==
    <<"d","d","d","d","-","d","d","-","d","d","T","d","d",":","d","d",":","d","d">>
FractionShape == <<".","d","d","d","d","d","d">>
OffsetShape == <<"s","d","d",":","d","d">>

\* In a shape d stands for a digit and s for a sign, any other character for
\* itself.
Matches(s, shape) ==
    /\ Len(s) = Len(shape)
    /\ \A i \in 1..Len(shape) :
          CASE shape[i] = "d" -> s[i] \in Digits
            [] shape[i] = "s" -> s[i] \in {"+", "-"}
            [] OTHER -> s[i] = shape[i]

\* datetime.fromisoformat on the forms datetime.isoformat() writes:
\* YYYY-MM-DDTHH:MM:SS, then an optional .ffffff, then an optional +HH:MM.
\* Anything else raises ValueError (ok is FALSE).  The ranges of the month,
\* day and time fields are not checked here.
fromisoformat(s) ==
    LET rest == SubSeq(s, 20, Len(s))
        tz == IF Len(rest) >= 7 /\ Matches(SubSeq(rest, 1, 7), FractionShape)
              THEN SubSeq(rest, 8, Len(rest)) ELSE rest
    IN  IF /\ Len(s) >= 19
           /\ Matches(SubSeq(s, 1, 19), DateTimeShape)
           /\ (tz = <<>> \/ Matches(tz, OffsetShape))
        THEN [ok |-> TRUE, date |-> SubSeq(s, 1, 10), hour |-> SubSeq(s, 12, 13)]
        ELSE [ok |-> FALSE, date |-> <<>>, hour |-> <<>>]

\* strftime("%Y-%m-%d-%H"): the fields as written, no conversion to UTC.
strftime_hour(dt) == dt.date \o <<"-">> \o dt.hour

RECURSIVE SumRange(_, _, _)
SumRange(s, lo, hi) ==
    IF lo > hi THEN 0
    ELSE IF lo = hi THEN s[lo]
    ELSE LET mid == (lo + hi) \div 2
         IN  SumRange(s, lo, mid) + SumRange(s, mid + 1, hi)

sum(s) == SumRange(s, 1, Len(s))

RECURSIVE GCD(_, _)
GCD(a, b) == IF b = 0 THEN a ELSE GCD(b, a % b)

\* a / b for b > 0, as the fraction in lowest terms.
Quotient(a, b) == [num |-> a \div GCD(a, b), den |-> b \div GCD(a, b)]

\* The Metrics dataclass; the five count maps are dict identities.
Metrics(total_requests, ai_crawler_requests, proxy_requests, error_requests, start_time, last_request_time, average_response_time, status_code_counts, user_agent_counts, path_counts, ai_crawler_types, requests_by_hour) ==
    [total_requests |-> total_requests,
     ai_crawler_requests |-> ai_crawler_requests,
     proxy_requests |-> proxy_requests,
     error_requests |-> error_requests,
     start_time |-> start_time,
     last_request_time |-> last_request_time,
     average_response_time |-> average_response_time,
     status_code_counts |-> status_code_counts,
     user_agent_counts |-> user_agent_counts,
     path_counts |-> path_counts,
     ai_crawler_types |-> ai_crawler_types,
     requests_by_hour |-> requests_by_hour]

TsOffset ==
    <<"2","0","2","6","-","1","1","-","0","2","T","1","5",":","0","4",":","0","5",
      ".","1","2","3","4","5","6","+","0","0",":","0","0">>
TsZulu ==
    <<"2","0","2","6","-","1","1","-","0","2","T","1","6",":","5","9",":","5","9","Z">>
TsBad == <<"n","o","t","-","a","-","d","a","t","e">>

\* MetricsCollector.__init__: one Metrics object with five fresh dicts and an
\* empty list of response times.
MetricsCollector ==
    [store |-> [objects |-> << Metrics(0, 0, 0, 0, TsOffset, <<>>, Quotient(0, 1),
                                       1, 2, 3, 4, 5) >>,
                dicts |-> <<EmptyDict, EmptyDict, EmptyDict, EmptyDict, EmptyDict>>],
     self |-> [metrics |-> 1, response_times |-> <<>>]]

\* Lines 119-120: self.response_times[1:] once the list is over the cap.
trim(times) ==
    IF Len(times) > MAX_RESPONSE_TIMES THEN Tail(times) ELSE times

\* MetricsCollector.record_request.  The statements run in order and an
\* exception ends the call where it is raised: a timestamp that does not
\* parse raises at line 94, after lines 84-91 have updated the object.
record_request(st, self, log_entry, response_time) ==
    LET m == st.objects[self.metrics]
        dt == fromisoformat(replace_Z(log_entry.timestamp))
        \* lines 84-91
        mA == [m EXCEPT !.total_requests = @ + 1,
                        !.last_request_time = log_entry.timestamp]
        dA == [st.dicts EXCEPT
                  ![m.status_code_counts] = Count(@, log_entry.status_code),
                  ![m.path_counts] = Count(@, log_entry.path)]
        \* lines 94-101
        user_agent == IF Len(log_entry.user_agent) > 100
                      THEN SubSeq(log_entry.user_agent, 1, 100)
                      ELSE log_entry.user_agent
        dB == [dA EXCEPT
                  ![m.requests_by_hour] = Count(@, strftime_hour(dt)),
                  ![m.user_agent_counts] = Count(@, user_agent)]
        \* lines 103-112
        hits == {i \in 1..Len(METRICS_AI_CRAWLERS) :
                    StrIn(METRICS_AI_CRAWLERS[i], log_entry.user_agent)}
        first == CHOOSE i \in hits : \A j \in hits : i <= j
        dC == IF log_entry.is_ai_crawler /\ hits # {}
              THEN [dB EXCEPT ![m.ai_crawler_types] =
                                  Count(@, METRICS_AI_CRAWLERS[first])]
              ELSE dB
        mC == IF log_entry.is_ai_crawler
              THEN [mA EXCEPT !.ai_crawler_requests = @ + 1]
              ELSE [mA EXCEPT !.proxy_requests = @ + 1]
        \* lines 114-115
        mD == IF log_entry.status_code >= 400
              THEN [mC EXCEPT !.error_requests = @ + 1]
              ELSE mC
        \* lines 118-120
        times == trim(Append(self.response_times, response_time))
        \* lines 123-124
        mE == IF times # <<>>
              THEN [mD EXCEPT !.average_response_time =
                                  Quotient(sum(times), Len(times))]
              ELSE mD
    IN  IF ~dt.ok
        THEN [store |-> [objects |-> [st.objects EXCEPT ![self.metrics] = mA],
                         dicts |-> dA],
              self |-> self,
              raised |-> TRUE]
        ELSE [store |-> [objects |-> [st.objects EXCEPT ![self.metrics] = mE],
                         dicts |-> dC],
              self |-> [self EXCEPT !.response_times = times],
              raised |-> FALSE]

\* A plausible slip: the count maps are passed on without .copy().
get_metrics_shared_maps(st, self) ==
    LET m == st.objects[self.metrics]
    IN  [store |-> [st EXCEPT !.objects = Append(@, m)],
         result |-> Len(st.objects) + 1]

\* MetricsCollector.get_metrics: a new Metrics object, the scalars by value
\* and each count map as a new dict with the same items.
get_metrics(st, self) ==
    LET m == st.objects[self.metrics]
        n == Len(st.dicts)
        copies == << st.dicts[m.status_code_counts], st.dicts[m.user_agent_counts],
                     st.dicts[m.path_counts], st.dicts[m.ai_crawler_types],
                     st.dicts[m.requests_by_hour] >>
        returned == Metrics(m.total_requests, m.ai_crawler_requests,
                            m.proxy_requests, m.error_requests, m.start_time,
                            m.last_request_time, m.average_response_time,
                            n + 1, n + 2, n + 3, n + 4, n + 5)
    IN  [store |-> [objects |-> Append(st.objects, returned),
                    dicts |-> st.dicts \o copies],
         result |-> Len(st.objects) + 1]

\* What a Metrics object holds: its scalars and the items of its count maps.
View(st, id) ==
    LET m == st.objects[id]
    IN  [m EXCEPT !.status_code_counts = st.dicts[@],
                  !.user_agent_counts = st.dicts[@],
                  !.path_counts = st.dicts[@],
                  !.ai_crawler_types = st.dicts[@],
                  !.requests_by_hour = st.dicts[@]]

\* What the collector holds.
CollectorView(st, self) ==
    [metrics |-> View(st, self.metrics), response_times |-> self.response_times]

\* The log entries and response times record_request is called with.
MetricsEntries ==
    { MetricsLogEntry(TsOffset, "GET", "/article", BrowserUA, FALSE, 200, "10.0.0.1", ""),
      MetricsLogEntry(TsZulu, "GET", "/article", GPTBotUA, TRUE, 200, "10.0.0.2", ""),
      MetricsLogEntry(TsOffset, "GET", "/missing", BrowserUA, FALSE, 404, "10.0.0.1", ""),
      MetricsLogEntry(TsBad, "GET", "/article", BrowserUA, FALSE, 500, "10.0.0.1", "") }
ResponseTimes == {1, 3}

\* A collector together with the history of the calls made on it: the
\* number of calls, how many of them carried a status of 400 or higher, how
\* many raised, the response times the calls were given, what the collector
\* held when the last call ended, and the calls made since the initial state.
World(st, self, hist) == [store |-> st, self |-> self, hist |-> hist]

NewWorld ==
    World(MetricsCollector.store, MetricsCollector.self,
          [calls |-> 0, error_entries |-> 0, raised |-> 0, offered |-> <<>>,
           steps |-> 0,
           view |-> CollectorView(MetricsCollector.store, MetricsCollector.self)])

Recorded(w, log_entry, response_time) ==
    LET r == record_request(w.store, w.self, log_entry, response_time)
    IN  World(r.store, r.self,
              [calls |-> w.hist.calls + 1,
               error_entries |-> w.hist.error_entries
                                 + (IF log_entry.status_code >= 400 THEN 1 ELSE 0),
               raised |-> w.hist.raised + (IF r.raised THEN 1 ELSE 0),
               offered |-> Append(w.hist.offered, response_time),
               steps |-> w.hist.steps + 1,
               view |-> CollectorView(r.store, r.self)])

\* The collector after n more calls that each recorded a page view taking
\* one unit of time: the first half of the calls, and once these are done
\* the rest.
RECURSIVE Replay(_, _)
Replay(w, n) ==
    IF n = 0 THEN w
    ELSE IF n = 1
    THEN Recorded(w, MetricsLogEntry(TsOffset, "GET", "/article", BrowserUA,
                                     FALSE, 200, "10.0.0.1", ""), 1)
    ELSE LET half == Replay(w, n \div 2)
         IN  IF half.hist.calls >= 0 THEN Replay(half, n - (n \div 2)) ELSE half

WarmWorld == [Replay(NewWorld, WarmCalls) EXCEPT !.hist.steps = 0]

(***************************************************************************)
(* Actions of the request handler.                                         *)
(***************************************************************************)
HandlerFrame ==
    UNCHANGED <<cParts, cPc, cVerdict, cEntry, tracker, recordCalls, metricsVars>>

Start(r) ==
    /\ handlers[r].pc = "idle"
    /\ \E request \in HandlerRequests,
          fault \in {"none", "extract", "classify", "print55"} :
          /\ arrivals' = [arrivals EXCEPT ![request.remote_addr] = @ + 1]
          /\ handlers' = [handlers EXCEPT ![r] =
                StartStep(@, request, fault,
                          arrivals[request.remote_addr]
                              >= HeuristicDetectionConfig.max_requests_per_minute)]
    /\ HandlerFrame

FetchOrigin(r) ==
    /\ handlers[r].pc = "fetch"
    /\ \E reply \in OriginErrors \cup OriginResponses :
          handlers' = [handlers EXCEPT ![r] = FetchStep(@, reply)]
    /\ UNCHANGED arrivals
    /\ HandlerFrame

ForwardLog(r) ==
    /\ handlers[r].pc \in LogPcs
    /\ \E outcome \in LogOutcomes :
          handlers' = [handlers EXCEPT ![r] = LogStep(@, outcome)]
    /\ UNCHANGED arrivals
    /\ HandlerFrame

ReadBody(r) ==
    /\ handlers[r].pc = "read"
    /\ \E readOk \in BOOLEAN :
          handlers' = [handlers EXCEPT ![r] = ReadStep(@, readOk)]
    /\ UNCHANGED arrivals
    /\ HandlerFrame

ProbeInit ==
    /\ cParts = <<>>
    /\ cPc = "building"
    /\ cVerdict = FALSE
    /\ cEntry = NoEntry

HandlerInit ==
    /\ handlers = [r \in Reqs |-> IdleHandler]
    /\ arrivals = [c \in Clients |-> 0]

TrackerInit ==
    /\ tracker = create_ip_request_tracker
    /\ recordCalls = [c \in Clients |-> 0]

MetricsInit ==
    /\ store = NewWorld.store
    /\ global_metrics = NewWorld.self
    /\ mhist = NewWorld.hist
    /\ snapshots = <<>>

Init == ProbeInit /\ HandlerInit /\ TrackerInit /\ MetricsInit

Next == \E r \in Reqs : Start(r) \/ FetchOrigin(r) \/ ForwardLog(r) \/ ReadBody(r)

Spec == Init /\ [][Next]_vars

(***************************************************************************)
(* The classifier alone: a User-Agent header is put together from          *)
(* fragments, then classified as lines 26-40 of handle_request do.         *)
(***************************************************************************)
RECURSIVE Join(_)
Join(parts) == IF parts = <<>> THEN <<>> ELSE Head(parts) \o Join(Tail(parts))

ProbeFrame == UNCHANGED <<handlers, arrivals, tracker, recordCalls, metricsVars>>

AppendFragment ==
    /\ cPc = "building"
    /\ Len(cParts) < MaxFrags
    /\ \E f \in Fragments : cParts' = Append(cParts, f)
    /\ UNCHANGED <<cPc, cVerdict, cEntry>>
    /\ ProbeFrame

Classify ==
    /\ cPc = "building"
    /\ \E method \in Methods, path \in Paths, addr \in Clients :
          cEntry' = NewLogEntry(Request(method, path, Join(cParts), addr))
    /\ cVerdict' = is_ai_crawler(Join(cParts))
    /\ cPc' = "classified"
    /\ UNCHANGED cParts
    /\ ProbeFrame

NextClassify == AppendFragment \/ Classify

SpecClassify == Init /\ [][NextClassify]_vars

(***************************************************************************)
(* The tracker alone: callers invoke record on the shared instance.        *)
(***************************************************************************)
RecordCall(ip) ==
    /\ recordCalls[ip] < MaxRecordCalls
    /\ tracker' = record_call(tracker, ip)
    /\ recordCalls' = [recordCalls EXCEPT ![ip] = @ + 1]
    /\ UNCHANGED <<cParts, cPc, cVerdict, cEntry, handlers, arrivals, metricsVars>>

NextTracker == \E ip \in Clients : RecordCall(ip)

SpecTracker == Init /\ [][NextTracker]_vars

(***************************************************************************)
(* The collector alone: callers record requests on a collector that is     *)
(* new or has been in use.                                                 *)
(***************************************************************************)
MetricsFrame ==
    UNCHANGED <<cParts, cPc, cVerdict, cEntry, handlers, arrivals, tracker,
                recordCalls>>

RecordRequest(limit) ==
    /\ mhist.steps < limit
    /\ \E log_entry \in MetricsEntries, response_time \in ResponseTimes :
          LET w == Recorded(World(store, global_metrics, mhist),
                            log_entry, response_time)
          IN  /\ store' = w.store
              /\ global_metrics' = w.self
              /\ mhist' = w.hist
    /\ UNCHANGED snapshots
    /\ MetricsFrame

InitMetrics ==
    /\ ProbeInit /\ HandlerInit /\ TrackerInit
    /\ \E w \in {NewWorld, WarmWorld} :
          /\ store = w.store
          /\ global_metrics = w.self
          /\ mhist = w.hist
    /\ snapshots = <<>>

NextMetrics == RecordRequest(MaxCalls)

SpecMetrics == InitMetrics /\ [][NextMetrics]_vars

(***************************************************************************)
(* The collector and its callers: requests are recorded, snapshots are     *)
(* taken with get_metrics, and a caller changes a snapshot it holds.       *)
(***************************************************************************)
\* Each held snapshot: the object returned, the number of calls recorded
\* when it was returned, what it held then, and whether its holder has
\* changed it since.
GetMetrics ==
    /\ Len(snapshots) < MaxSnapshots
    /\ LET r == get_metrics(store, global_metrics)
       IN  /\ store' = r.store
           /\ snapshots' = Append(snapshots,
                  [ref |-> r.result, at |-> mhist.calls,
                   taken |-> View(r.store, r.result), changed |-> FALSE])
    /\ UNCHANGED <<global_metrics, mhist>>
    /\ MetricsFrame

\* A key of each count map, for the holder of a snapshot to write to.
ProbeKey(field) ==
    CASE field = "status_code_counts" -> 200
      [] field = "user_agent_counts" -> BrowserUA
      [] field = "path_counts" -> "/article"
      [] field = "ai_crawler_types" -> METRICS_AI_CRAWLERS[1]
      [] field = "requests_by_hour" -> strftime_hour(fromisoformat(TsOffset))

\* The holder of snapshot k adds one to each of its counters and, in each of
\* its count maps, to the count of one key.
Changed(st, id) ==
    LET m == st.objects[id]
        bump(d, field) == Count(d, ProbeKey(field))
    IN  [objects |-> [st.objects EXCEPT ![id] =
                        [m EXCEPT !.total_requests = @ + 1,
                                  !.ai_crawler_requests = @ + 1,
                                  !.proxy_requests = @ + 1,
                                  !.error_requests = @ + 1]],
         dicts |-> [st.dicts EXCEPT
                      ![m.status_code_counts] = bump(@, "status_code_counts"),
                      ![m.user_agent_counts] = bump(@, "user_agent_counts"),
                      ![m.path_counts] = bump(@, "path_counts"),
                      ![m.ai_crawler_types] = bump(@, "ai_crawler_types"),
                      ![m.requests_by_hour] = bump(@, "requests_by_hour")]]

ChangeSnapshot(k) ==
    /\ k \in DOMAIN snapshots
    /\ \A j \in DOMAIN snapshots : ~snapshots[j].changed
    /\ store' = Changed(store, snapshots[k].ref)
    /\ snapshots' = [snapshots EXCEPT ![k].changed = TRUE]
    /\ UNCHANGED <<global_metrics, mhist>>
    /\ MetricsFrame

NextSnapshot ==
    \/ RecordRequest(MaxSnapCalls)
    \/ GetMetrics
    \/ \E k \in 1..MaxSnapshots : ChangeSnapshot(k)

SpecSnapshot == Init /\ [][NextSnapshot]_vars

(***************************************************************************)
(* Properties.                                                             *)
(***************************************************************************)
CrawlerTokens == {AI_CRAWLERS[k] : k \in 1..Len(AI_CRAWLERS)}

\* The string holds a known crawler token as a substring.
HasCrawlerToken(ua) ==
    \E token \in CrawlerTokens :
        \E i \in 1..(Len(ua) - Len(token) + 1) :
            SubSeq(ua, i, i + Len(token) - 1) = token

Done(h) == h.pc = "done"
Returned(h) == h.response.kind = "response"
LastLog(h) == h.logs[Len(h.logs)]

\* C1: a User-Agent that contains any token of AI_CRAWLERS as a substring is
\* classified as an AI crawler, and the log entry built for the request says
\* so, whatever the method, the path and the client address are.
C1_SignatureIsAuthoritative ==
    (cPc = "classified" /\ HasCrawlerToken(Join(cParts)))
        => (cVerdict /\ cEntry.is_ai_crawler)

\* A token behind a browser prefix was classified as a crawler.
C1_Witness ==
    /\ cPc = "classified"
    /\ cParts = <<UaMozilla, AI_CRAWLERS[5]>>
    /\ cEntry.path = "/style.css"
    /\ cVerdict
    /\ cEntry.is_ai_crawler

\* C2: every invocation of handle_request that ends, ends by returning a
\* response with a status code; no exception escapes to the caller,
\* whichever step failed.
C2_AlwaysResponds ==
    \A r \in Reqs :
        Done(handlers[r]) =>
            /\ Returned(handlers[r])
            /\ handlers[r].response.statusCode > 0

\* C3: when a step other than the origin fetch fails (reading the request's
\* fields, the classification, the crawler branch), handle_request returns
\* status 500 and has handed a log event with status 500 to forward_log.
C3_InternalFailureGives500 ==
    \A r \in Reqs :
        (Done(handlers[r])
            /\ handlers[r].faults \cap {"extract", "classify", "print55"} # {})
        => /\ handlers[r].response = InternalError
           /\ \E i \in DOMAIN handlers[r].logs :
                  handlers[r].logs[i].status_code = 500

OriginFailed(h) == h.origin.kind \in {"error", "timeout"} \/ "read" \in h.faults

\* C4: for a request without a crawler signature, when the origin request
\* raises or times out, or reading the origin's body raises, handle_request
\* returns 502 with Content-Type text/plain and the fixed body, and the last
\* log event handed to forward_log before that carries status 502.
C4_OriginFailureGives502 ==
    \A r \in Reqs :
        LET h == handlers[r] IN
        /\ (Done(h) /\ OriginFailed(h) /\ ~HasCrawlerToken(h.request.user_agent))
              => h.response = BadGateway
        /\ h.response = BadGateway
              => (h.logs # <<>> /\ LastLog(h).status_code = 502)
        /\ (OriginFailed(h) /\ ~Done(h)) => h.response = NoResponse

\* The origin request timed out and the caller got the 502.
C4_Witness ==
    \E r \in Reqs :
        /\ Done(handlers[r])
        /\ handlers[r].origin.kind = "timeout"
        /\ handlers[r].response = BadGateway
        /\ handlers[r].logs = <<[handlers[r].log_entry EXCEPT !.status_code = 502]>>

\* What the environment gave an invocation apart from the log service's
\* answers: the request, the step that was made to fail, the origin's reply.
SameInputs(h1, h2) ==
    /\ h1.request = h2.request
    /\ h1.origin = h2.origin
    /\ h1.faults \ {"forward_log"} = h2.faults \ {"forward_log"}

C6_OneLogOneFetch ==
    \A r \in Reqs :
        (Done(handlers[r]) /\ Returned(handlers[r]))
        => (Len(handlers[r].logs) = 1 /\ handlers[r].fetches <= 1)

\* C7: for a request without a crawler signature, when the origin answers
\* and its body is read, the response carries the origin's status code and
\* every header of the origin's response.
C7_RelaysStatusAndHeaders ==
    \A r \in Reqs :
        LET h == handlers[r] IN
        (Done(h) /\ ~HasCrawlerToken(h.request.user_agent)
            /\ h.origin.kind = "response" /\ "read" \notin h.faults)
        => /\ Returned(h)
           /\ h.response.statusCode = h.origin.status
           /\ \A i \in DOMAIN h.origin.headers :
                 /\ h.origin.headers[i][1] \in DOMAIN h.response.headers
                 /\ h.response.headers[h.origin.headers[i][1]]
                        = h.origin.headers[i][2]

CompletedFrom(ip) ==
    {q \in Reqs : Done(handlers[q]) /\ Returned(handlers[q])
                    /\ handlers[q].request.remote_addr = ip}

\* C8: a request whose User-Agent holds a crawler token is answered with
\* status 200 and the synthetic content, and once it has completed the
\* tracker holds one entry per completed request of that client address.
C8_CrawlerServedAndTracked ==
    \A r \in Reqs :
        LET h == handlers[r] IN
        (Done(h) /\ HasCrawlerToken(h.request.user_agent) /\ h.faults = {})
        => /\ h.response = SyntheticResponse
           /\ Len(TrackerEntries(tracker, h.request.remote_addr))
                  = Cardinality(CompletedFrom(h.request.remote_addr))

\* C9: when a client address has sent more than max_requests_per_minute
\* requests in the minute, none with a crawler signature, the rate heuristic
\* fires and the request over the limit gets the synthetic response instead
\* of being proxied.
C9_RateLimitFlipsVerdict ==
    \A r \in Reqs :
        LET h == handlers[r] IN
        (/\ Done(h) /\ h.faults = {}
         /\ h.over_limit
         /\ \A q \in Reqs :
                handlers[q].request.remote_addr = h.request.remote_addr
                    => ~HasCrawlerToken(handlers[q].request.user_agent))
        => /\ has_high_request_rate(h.request.remote_addr, tracker,
                    HeuristicDetectionConfig.max_requests_per_minute)
           /\ h.response = SyntheticResponse
           /\ h.fetches = 0

\* C10: after N record calls for a client address, in any order with the
\* calls for other addresses, the tracker holds exactly N entries for it.
C10_NoLostRecord ==
    \A ip \in Clients : Len(TrackerEntries(tracker, ip)) = recordCalls[ip]

ContactsOrigin(h) == h.pc \in {"fetch", "log_proxy", "read"} \/ h.fetches > 0

\* C11: the origin is contacted only for a request classified as not an AI
\* crawler, the synthetic body is returned only for one classified as an AI
\* crawler, no invocation does both, and an invocation is on either path
\* only once its log entry, which holds the verdict, has been built.
C11_PathsExclusiveAndFollowVerdict ==
    \A r \in Reqs :
        LET h == handlers[r] IN
        /\ ContactsOrigin(h) => (h.log_entry # NoEntry /\ ~h.log_entry.is_ai_crawler)
        /\ (h.pc = "log_ai" \/ h.response.body = SyntheticBody)
              => (h.log_entry # NoEntry /\ h.log_entry.is_ai_crawler)
        /\ ~(ContactsOrigin(h) /\ (h.pc = "log_ai" \/ h.response.body = SyntheticBody))
        /\ h.log_entry.is_ai_crawler => h.origin = NoOrigin

\* One invocation answered with the synthetic body without a fetch, another
\* relayed the origin's reply after one fetch.
C11_Witness ==
    \E r1 \in Reqs, r2 \in Reqs :
        /\ handlers[r1].response = SyntheticResponse
        /\ handlers[r1].log_entry.is_ai_crawler
        /\ handlers[r1].fetches = 0
        /\ Done(handlers[r2]) /\ Returned(handlers[r2])
        /\ ~handlers[r2].log_entry.is_ai_crawler
        /\ handlers[r2].fetches = 1
        /\ handlers[r2].response.statusCode = handlers[r2].origin.status

\* C12: every log event an invocation handed to forward_log carries the
\* status code of the response the invocation finally returned.
C12_LoggedStatusIsReturnedStatus ==
    \A r \in Reqs :
        LET h == handlers[r] IN
        (Done(h) /\ Returned(h))
        => \A i \in DOMAIN h.logs : h.logs[i].status_code = h.response.statusCode

\* C13: total_requests is the number of record_request calls made and is
\* ai_crawler_requests + proxy_requests, and error_requests is the number of
\* calls whose log entry carried a status code of 400 or higher.
C13_CountersAgree ==
    LET m == store.objects[global_metrics.metrics] IN
    /\ m.total_requests = mhist.calls
    /\ m.total_requests = m.ai_crawler_requests + m.proxy_requests
    /\ m.error_requests = mhist.error_entries

\* The newest n values of a list.
Newest(times, n) ==
    IF Len(times) <= n THEN times ELSE SubSeq(times, Len(times) - n + 1, Len(times))

\* C14: response_times never holds more than 1000 values, it is the response
\* times of the most recent record_request calls, oldest first, and once it
\* is not empty average_response_time is the sum of exactly these values
\* divided by their number.
C14_WindowOfNewestTimes ==
    LET m == store.objects[global_metrics.metrics]
        times == global_metrics.response_times
    IN  /\ Len(times) <= MAX_RESPONSE_TIMES
        /\ times = Newest(mhist.offered, MAX_RESPONSE_TIMES)
        /\ times # <<>>
              => m.average_response_time.num * Len(times)
                     = sum(times) * m.average_response_time.den

\* C15: get_metrics returns a snapshot.  Snapshots returned with no
\* record_request between them held equal values when returned; a snapshot
\* its holder has not changed holds what it held when returned, whatever
\* was recorded since; and the collector holds what it held when the last
\* record_request ended, whatever holders did to their snapshots.
C15_SnapshotIsIndependent ==
    /\ \A j \in DOMAIN snapshots, k \in DOMAIN snapshots :
          snapshots[j].at = snapshots[k].at => snapshots[j].taken = snapshots[k].taken
    /\ \A k \in DOMAIN snapshots :
          ~snapshots[k].changed
              => View(store, snapshots[k].ref) = snapshots[k].taken
    /\ \A k \in DOMAIN snapshots :
          snapshots[k].at = mhist.calls => snapshots[k].taken = mhist.view.metrics
    /\ CollectorView(store, global_metrics) = mhist.view

\* Two snapshots were returned with nothing recorded between them, a request
\* was recorded after both, and the holder of one has changed it.
C15_Witness ==
    /\ Len(snapshots) = 2
    /\ snapshots[1].at = snapshots[2].at
    /\ snapshots[1].at > 0
    /\ mhist.calls > snapshots[1].at
    /\ mhist.raised = 0
    /\ \E k \in DOMAIN snapshots :
          /\ snapshots[k].changed
          /\ View(store, snapshots[k].ref) # snapshots[k].taken

=============================================================================
